---- MODULE Spec2Model ----
(***************************************************************************)
(* Model of Solution.avoidFlood                                            *)
(* (src/pythonLeetCode/Avoid_Flood_in_The_City.py).                        *)
(*                                                                         *)
(* Python lists are modelled as TLA+ sequences.  Python indexes from 0,    *)
(* sequences from 1: every list access goes through At / SetAt, which      *)
(* take the Python (0-based) index.  Day numbers, and the values stored in *)
(* dry_days and full_lakes, are the Python 0-based day numbers.            *)
(***************************************************************************)
EXTENDS Integers, Sequences, FiniteSets, TLC

\* Bounds of the explored inputs: length of rains, largest lake id.
MaxLen == 6
MaxLake == 4

VARIABLES rains, result, full_lakes, dry_days, i, pc, fi, ret

vars == <<rains, result, full_lakes, dry_days, i, pc, fi, ret>>

\* n = len(rains)
n == Len(rains)

\* The day numbers of the input, range(n).
Days == 0 .. (n - 1)

\* a[k] with the 0-based index of the source.
At(a, k) == a[k + 1]

\* The elements of a list, as a set.
Range(a) == {a[p] : p \in 1 .. Len(a)}

\* Mutant of SetAt: the index is off by one.
SetAtShifted(a, k, v) == [a EXCEPT ![k + 2] = v]

\* a[k] = v with the 0-based index of the source.
SetAt(a, k, v) == [a EXCEPT ![k + 1] = v]

\* Mutant of InitResult: one entry short.
InitResultShort(len) == [p \in 1 .. (len - 1) |-> -1]

\* result = [-1] * n
InitResult(len) == [p \in 1 .. len |-> -1]

\* Mutant of Pop: the entry is left in the list.
PopKeep(a, k) == a

\* a.pop(k) with the 0-based index of the source: the list without entry k.
Pop(a, k) == SubSeq(a, 1, k) \o SubSeq(a, k + 2, Len(a))

\* The loop of bisect.bisect_right: lo, hi are 0-based bounds of the window.
RECURSIVE bisect_loop(_, _, _, _)
bisect_loop(a, x, lo, hi) ==
    IF lo < hi
    THEN LET mid == (lo + hi) \div 2
         IN  IF x < At(a, mid)
             THEN bisect_loop(a, x, lo, mid)
             ELSE bisect_loop(a, x, mid + 1, hi)
    ELSE lo

\* Mutant of bisect_right: always the first entry of the list.
bisect_first(a, x) == 0

\* Mutant of bisect_right: the last entry of the list when some entry is
\* greater than x.
bisect_last(a, x) ==
    IF \E p \in 1 .. Len(a) : a[p] > x THEN Len(a) - 1 ELSE Len(a)

\* bisect.bisect_right(a, x): the 0-based insertion point after the entries
\* that are <= x.
bisect_right(a, x) == bisect_loop(a, x, 0, Len(a))

\* del full_lakes[lake]
DelLake(fl, lake) == [l \in (DOMAIN fl) \ {lake} |-> fl[l]]

\* full_lakes[lake] = day
SetLake(fl, lake, day) ==
    [l \in (DOMAIN fl) \cup {lake} |-> IF l = lake THEN day ELSE fl[l]]

\* The state at the head of the first loop iteration.
Init ==
    /\ \E len \in 0 .. MaxLen : rains \in [1 .. len -> 0 .. MaxLake]
    /\ result = InitResult(Len(rains))
    /\ full_lakes = << >>
    /\ dry_days = << >>
    /\ i = 0
    /\ pc = "loop"
    /\ fi = 0
    /\ ret = << >>

\* One iteration of the scan on a dry day.
DryDay ==
    /\ pc = "loop"
    /\ i < n
    /\ At(rains, i) = 0
    /\ dry_days' = Append(dry_days, i)
    /\ i' = i + 1
    /\ UNCHANGED <<rains, result, full_lakes, pc, fi, ret>>

\* One iteration of the scan on a rainy day whose lake is not full.
RainOnEmptyLake ==
    /\ pc = "loop"
    /\ i < n
    /\ At(rains, i) # 0
    /\ LET lake == At(rains, i)
       IN  /\ lake \notin DOMAIN full_lakes
           /\ full_lakes' = SetLake(full_lakes, lake, i)
    /\ i' = i + 1
    /\ UNCHANGED <<rains, result, dry_days, pc, fi, ret>>

\* One iteration of the scan on a rainy day whose lake is full and for which
\* bisect finds no dry day: return [].
RainInfeasible ==
    /\ pc = "loop"
    /\ i < n
    /\ At(rains, i) # 0
    /\ LET lake == At(rains, i)
       IN  /\ lake \in DOMAIN full_lakes
           /\ LET last_full_day == full_lakes[lake]
                  idx == bisect_right(dry_days, last_full_day)
              IN  idx = Len(dry_days)
    /\ pc' = "return27"
    /\ ret' = << >>
    /\ UNCHANGED <<rains, result, full_lakes, dry_days, i, fi>>

\* One iteration of the scan on a rainy day whose lake is full and for which
\* bisect finds a dry day: that day dries the lake.
RainOnFullLake ==
    /\ pc = "loop"
    /\ i < n
    /\ At(rains, i) # 0
    /\ LET lake == At(rains, i)
       IN  /\ lake \in DOMAIN full_lakes
           /\ LET last_full_day == full_lakes[lake]
                  idx == bisect_right(dry_days, last_full_day)
                  dry_day == At(dry_days, idx)
              IN  /\ idx # Len(dry_days)
                  /\ result' = SetAt(result, dry_day, lake)
                  /\ dry_days' = Pop(dry_days, idx)
                  /\ full_lakes' = SetLake(DelLake(full_lakes, lake), lake, i)
    /\ i' = i + 1
    /\ UNCHANGED <<rains, pc, fi, ret>>

\* The scan is over: enter the loop over the remaining dry days.
ScanEnd ==
    /\ pc = "loop"
    /\ i = n
    /\ pc' = "fill"
    /\ fi' = 0
    /\ UNCHANGED <<rains, result, full_lakes, dry_days, i, ret>>

\* One iteration of the loop over the remaining dry days.
FillDay ==
    /\ pc = "fill"
    /\ fi < Len(dry_days)
    /\ LET day == At(dry_days, fi)
       IN  result' = SetAt(result, day, 1)
    /\ fi' = fi + 1
    /\ UNCHANGED <<rains, full_lakes, dry_days, i, pc, ret>>

\* return result
ReturnResult ==
    /\ pc = "fill"
    /\ fi = Len(dry_days)
    /\ pc' = "return44"
    /\ ret' = result
    /\ UNCHANGED <<rains, result, full_lakes, dry_days, i, fi>>

Next ==
    \/ DryDay
    \/ RainOnEmptyLake
    \/ RainInfeasible
    \/ RainOnFullLake
    \/ ScanEnd
    \/ FillDay
    \/ ReturnResult

Spec == Init /\ [][Next]_vars

(***************************************************************************)
(* Vocabulary of the properties.                                           *)
(***************************************************************************)

\* The function has returned (by either return statement).
Returned == pc \in {"return27", "return44"}

\* Replaying the rains of r from day d on with the lakes of `full' full,
\* emptying lake p[k] on each dry day k, never rains on a full lake.
RECURSIVE Replay(_, _, _, _)
Replay(r, p, d, full) ==
    IF d = Len(r)
    THEN TRUE
    ELSE IF At(r, d) > 0
         THEN /\ At(r, d) \notin full
              /\ Replay(r, p, d + 1, full \cup {At(r, d)})
         ELSE Replay(r, p, d + 1, full \ {At(p, d)})

NoFlood(r, p) == Replay(r, p, 0, {})

\* The dry days of the input.
DryIdx == {k \in Days : At(rains, k) = 0}

\* The plan that empties lake f[k] on each dry day k.
PlanOf(f) == [p \in 1 .. n |-> IF rains[p] = 0 THEN f[p - 1] ELSE -1]

\* Some assignment of one lake per dry day avoids every flood.
Feasible == \E f \in [DryIdx -> 1 .. MaxLake] : NoFlood(rains, PlanOf(f))

\* Day k is a dry day that the plan p uses to empty a lake that rained
\* before k and rains again after k.
Rescues(p, k) ==
    /\ At(rains, k) = 0
    /\ \E a, b \in Days : a < k /\ k < b /\ At(rains, a) = At(p, k)
                          /\ At(rains, b) = At(p, k)

\* Day k is a dry day that the scan has given to a lake: its plan value is
\* set, and not by the loop over the remaining dry days.
Consumed(k) ==
    /\ At(rains, k) = 0
    /\ At(result, k) # -1
    /\ \A p \in 1 .. fi : dry_days[p] # k

\* The three classes of a day-index during the scan.
Assigned(k) == At(result, k) # -1
Rainy(k) == At(rains, k) > 0
Unresolved(k) == k \in Range(dry_days)

ClassCount(k) ==
    (IF Assigned(k) THEN 1 ELSE 0) + (IF Rainy(k) THEN 1 ELSE 0)
        + (IF Unresolved(k) THEN 1 ELSE 0)

\* The scan stands at a rainy day whose lake is full, and no dry day of the
\* pool is later than the day the lake became full.
NoRescue ==
    /\ pc = "loop"
    /\ i < n
    /\ At(rains, i) > 0
    /\ At(rains, i) \in DOMAIN full_lakes
    /\ \A k \in Range(dry_days) : k <= full_lakes[At(rains, i)]

(***************************************************************************)
(* Properties.                                                             *)
(***************************************************************************)

\* C1: a returned non-empty plan is sound: replaying the rains while
\* emptying lake plan[k] on each dry day k never rains on a full lake, i.e.
\* between two rains on the same lake there is a dry day whose plan value
\* is that lake.
C1_Soundness ==
    (Returned /\ ret # << >>) =>
        /\ NoFlood(rains, ret)
        /\ \A a, b \in Days :
              (a < b /\ At(rains, a) > 0 /\ At(rains, a) = At(rains, b)) =>
                 \E k \in Days : /\ a < k /\ k < b
                                 /\ At(rains, k) = 0
                                 /\ At(ret, k) = At(rains, a)

\* A plan was returned in which a dry day rescues a lake.
C1_Witness ==
    /\ pc = "return44"
    /\ \E k \in Days : Rescues(ret, k)

\* C2: for n >= 1 the empty sequence is returned only if no assignment of
\* one lake per dry day avoids every flood; whenever a flood-free schedule
\* exists a non-empty plan is returned.
C2_Completeness ==
    (Returned /\ n >= 1) =>
        /\ (ret = << >> => ~Feasible)
        /\ (Feasible => ret # << >>)

\* The empty sequence was returned although dry days had been used.
C2_Witness ==
    /\ pc = "return27"
    /\ n >= 1
    /\ dry_days # << >>
    /\ \E k \in Days : Consumed(k)

\* C3 (as stated): rains = [1,2,0,1,2] returns [-1,-1,1,-1,-1].
C3_Original ==
    (Returned /\ rains = <<1, 2, 0, 1, 2>>) => ret = <<-1, -1, 1, -1, -1>>

\* C3 (amended): rains = [1,2,0,1,2] returns the empty sequence, by the
\* infeasible branch at day 4, after day 2 was given to lake 1.
C3_Amended ==
    (Returned /\ rains = <<1, 2, 0, 1, 2>>) =>
        /\ ret = << >>
        /\ pc = "return27"
        /\ i = 4
        /\ result = <<-1, -1, 1, -1, -1>>

C3_Witness == Returned /\ rains = <<1, 2, 0, 1, 2>>

\* C4: when the scan stands at a rainy day whose lake is full and the pool
\* holds no dry day later than the lake's last full day, the next step
\* returns the empty sequence and no later day is processed; [1,2,1] and
\* [1,2,1,0,2,1] return the empty sequence.
C4_Infeasible ==
    [][ /\ NoRescue => (pc' = "return27" /\ ret' = << >> /\ i' = i)
        /\ pc = "return27" => (pc' = "return27" /\ i' = i /\ ret' = ret)
        /\ (pc' \in {"return27", "return44"}
              /\ rains' \in {<<1, 2, 1>>, <<1, 2, 1, 0, 2, 1>>})
             => (ret' = << >> /\ pc' = "return27" /\ i' = 2) ]_vars

\* The empty sequence was returned with later days unprocessed and a
\* non-empty pool.
C4_Witness ==
    /\ pc = "return27"
    /\ i < n - 1
    /\ dry_days # << >>

\* C5: a plan returned by the normal end has the length of rains and holds
\* -1 at every rainy day; [1,2,3,4] yields [-1,-1,-1,-1].
C5_Shape ==
    /\ (Returned /\ (pc = "return44" \/ ret # << >>)) =>
          /\ Len(ret) = Len(rains)
          /\ \A k \in Days : At(rains, k) > 0 => At(ret, k) = -1
    /\ (Returned /\ rains = <<1, 2, 3, 4>>) => ret = <<-1, -1, -1, -1>>

\* A plan was returned for an input with rainy days and a used dry day.
C5_Witness ==
    /\ pc = "return44"
    /\ \E k \in Days : Rescues(ret, k)
    /\ \E k \in Days : At(rains, k) > 0 /\ At(ret, k) = -1

\* C6: in a returned non-empty plan the value at a dry day is -1 or a
\* positive lake id, never 0; every dry day left in the pool has value 1.
C6_DryValues ==
    (Returned /\ ret # << >>) =>
        /\ \A k \in Days : At(rains, k) = 0 =>
              /\ (At(ret, k) = -1 \/ At(ret, k) > 0)
              /\ At(ret, k) # 0
        /\ \A k \in Range(dry_days) : At(ret, k) = 1

\* A plan was returned with a dry day left in the pool and another one used.
C6_Witness ==
    /\ pc = "return44"
    /\ dry_days # << >>
    /\ \E k \in Days : Rescues(ret, k) /\ k \notin Range(dry_days)

\* C7: a zero-length input returns the empty sequence at the normal end;
\* for n >= 1 the empty sequence is returned only by the infeasible branch,
\* which is taken only at a full lake with no later dry day in the pool.
C7_Sentinel ==
    Returned =>
        /\ n = 0 => (ret = << >> /\ pc = "return44")
        /\ (n >= 1 /\ ret = << >>) => pc = "return27"
        /\ pc = "return27" =>
              /\ i < n
              /\ At(rains, i) \in DOMAIN full_lakes
              /\ \A k \in Range(dry_days) : k <= full_lakes[At(rains, i)]

\* The zero-length input has returned.
C7_Witness == Returned /\ n = 0 /\ ret = << >>

\* C8: a step of the scan that gives a dry day k to the lake L of day i,
\* whose last full day is d, takes the smallest k of the pool with k > d,
\* and d < k < i.
C8_GreedyEarliest ==
    [][ (pc = "loop" /\ result' # result) =>
          \E k \in Range(dry_days) :
             LET L == At(rains, i)
                 d == full_lakes[L]
             IN  /\ At(result, k) = -1
                 /\ At(result', k) = L
                 /\ \A m \in Days \ {k} : At(result', m) = At(result, m)
                 /\ Range(dry_days') = Range(dry_days) \ {k}
                 /\ d < k
                 /\ k < i
                 /\ \A m \in Range(dry_days) : m > d => k <= m ]_vars

\* During the scan a dry day has been given to a lake while an earlier dry
\* day stays in the pool.
C8_Witness ==
    /\ pc = "loop"
    /\ \E k \in Days : /\ Consumed(k)
                       /\ \E m \in Range(dry_days) : m < k

\* C9: a consumed dry day stays consumed: it is not in the pool, it never
\* re-enters the pool, and its plan value is never overwritten, neither by
\* a later assignment nor by the loop over the remaining dry days.
C9_ConsumedStays ==
    [][ \A k \in Days :
          Consumed(k) =>
             /\ k \notin Range(dry_days)
             /\ k \notin Range(dry_days')
             /\ At(result', k) = At(result, k)
             /\ Consumed(k)'
             /\ pc' = "return44" => At(ret', k) = At(result, k) ]_vars

\* A plan was returned with a consumed dry day and a placeholder day.
C9_Witness ==
    /\ pc = "return44"
    /\ dry_days # << >>
    /\ \E k \in Days : Consumed(k) /\ At(ret, k) > 1

\* C10 (as stated): during the scan every day-index is in exactly one of
\* the classes assigned, rainy, unresolved.
C10_Original ==
    pc = "loop" => \A k \in Days : ClassCount(k) = 1

\* C10 (amended): during the scan no day-index is in two classes, every
\* day-index already scanned and every rainy day is in exactly one, and a
\* dry day not yet scanned is in none.
C10_Amended ==
    pc = "loop" =>
        \A k \in Days :
            /\ ClassCount(k) <= 1
            /\ (k < i \/ Rainy(k)) => ClassCount(k) = 1
            /\ (k >= i /\ ~Rainy(k)) => ClassCount(k) = 0

\* In the middle of the scan: an assigned day, a pool day, and a dry day
\* not yet scanned.
C10_Witness ==
    /\ pc = "loop"
    /\ \E k \in Days : k < i /\ Assigned(k)
    /\ dry_days # << >>
    /\ \E k \in Days : k >= i /\ At(rains, k) = 0

====
